---- MODULE Spec2Model ----
(***************************************************************************)
(* Model of service_record_tool.py: generate() and the pure helpers it     *)
(* calls.                                                                  *)
(*                                                                         *)
(* A Python str is a sequence of characters, and a character is a TLA+     *)
(* string naming it.  ASCII characters name themselves.  The Japanese      *)
(* characters of the source are named by a reading:                        *)
(*   "toki" U+6642 (hour), "fun" U+5206 (minute), "nami" U+FF5E (full-width*)
(*   tilde), "degC" U+2103, "nakaguro" U+30FB, "LF" line feed,             *)
(*   "shutsu" "seki" = ATTEND_VALUE, "ketsu" "seki" "toki" "tai" "ou" =    *)
(*   ABSENT_SKIP_VALUE, "mi" "ken" "on" = the not-measured token,          *)
(*   "zai" "taku" = in-home, "tsuu" "tokoro" = attendance at the office,   *)
(*   "ri" "you" "sha" "taku" / "koto" "gyou" "tokoro" = the two methods.   *)
(* Column names of the two CSV files are atomic strings (see COL_* below). *)
(***************************************************************************)
EXTENDS Integers, Sequences, FiniteSets, TLC

(***************************************************************************)
(* Python str primitives                                                   *)
(***************************************************************************)
Min(a, b) == IF a < b THEN a ELSE b

Range(s) == {s[i] : i \in 1..Len(s)}

\* s[:n]
Take(s, n) == SubSeq(s, 1, Min(n, Len(s)))

\* s[n:] (0-based n)
DropN(s, n) == SubSeq(s, n + 1, Len(s))

\* s.replace(c, d) for single characters
ReplaceChar(s, c, d) == [i \in 1..Len(s) |-> IF s[i] = c THEN d ELSE s[i]]

\* s.replace(c, "")
RemoveChar(s, c) == SelectSeq(s, LAMBDA x : x # c)

IsSpace(c) == c \in {" ", "TAB"}

RECURSIVE LStrip(_)
LStrip(s) == IF s # <<>> /\ IsSpace(Head(s)) THEN LStrip(Tail(s)) ELSE s

RECURSIVE RStrip(_)
RStrip(s) ==
  IF s # <<>> /\ IsSpace(s[Len(s)]) THEN RStrip(SubSeq(s, 1, Len(s) - 1)) ELSE s

\* s.strip()
Strip(s) == RStrip(LStrip(s))

\* t in s (substring test)
Contains(s, t) ==
  \E i \in 0..(Len(s) - Len(t)) : SubSeq(s, i + 1, i + Len(t)) = t

\* sep.join(parts)
RECURSIVE Join(_, _)
Join(parts, sep) ==
  IF parts = <<>> THEN <<>>
  ELSE IF Len(parts) = 1 THEN parts[1]
  ELSE parts[1] \o sep \o Join(Tail(parts), sep)

Digits == <<"0", "1", "2", "3", "4", "5", "6", "7", "8", "9">>

IsDigit(c) == c \in Range(Digits)

DigitVal(c) == (CHOOSE i \in 1..10 : Digits[i] = c) - 1

\* int(s) for a string of decimal digits
RECURSIVE IntOf(_)
IntOf(s) ==
  IF s = <<>> THEN 0
  ELSE 10 * IntOf(SubSeq(s, 1, Len(s) - 1)) + DigitVal(s[Len(s)])

\* str(n) / f"{n}" for n >= 0
RECURSIVE IntStr(_)
IntStr(n) ==
  IF n < 10 THEN <<Digits[n + 1]>>
  ELSE IntStr(n \div 10) \o <<Digits[(n % 10) + 1]>>

\* f"{n:02d}" for n >= 0
Pad2(n) == IF n < 10 THEN <<"0">> \o IntStr(n) ELSE IntStr(n)

\* Python's None; a parsed pair is a 2-tuple, so the empty tuple is free.
None == <<>>

\* d.get(k, "") / (d.get(k) or "") on a Dict[str, str]
Get(d, k) == IF k \in DOMAIN d THEN d[k] ELSE <<>>

(***************************************************************************)
(* Module constants                                                        *)
(***************************************************************************)
TEMPLATE_SHEET == <<"F", "o", "r", "m", "a", "t">>

SAMPLE_SHEET == <<"S", "a", "m", "p", "l", "e">>

CELL_MAP ==
  [office |-> "B3", date |-> "B4", user |-> "G4", time |-> "B5",
   method |-> "G5", program |-> "A9", dayreport |-> "A11", temp |-> "B13",
   slack |-> "A16"]

Cells == {CELL_MAP[k] : k \in DOMAIN CELL_MAP}

ATTEND_VALUE == <<"shutsu", "seki">>

ABSENT_SKIP_VALUE == <<"ketsu", "seki", "toki", "tai", "ou">>

\* Column names of caseDaily
COL_OFFICE == "jigyoshomei"
COL_NAME == "shimei"
COL_DATE == "nengappi"
COL_STATUS == "shukketsu-tou"
COL_START == "jisseki-kaishi-jikan"
COL_END == "jisseki-shuryo-jikan"
COL_REMARKS == "jissekikirokuhyo-bikoran"
COL_NOTE == "biko"
COL_REPORT == "nippo"

COL_TEMP == "taion"

(***************************************************************************)
(* Field normalizers                                                       *)
(***************************************************************************)
extract_yyyymm_from_filename(name) ==
  LET hit(i) == /\ name[i] = "_"
                /\ i + 6 <= Len(name)
                /\ \A j \in 1..6 : IsDigit(name[i + j])
      starts == {i \in 1..Len(name) : hit(i)}
  IN IF starts = {} THEN None
     ELSE LET i == CHOOSE m \in starts : \A n \in starts : m <= n
          IN SubSeq(name, i + 1, i + 6)

normalize_date(s) == ReplaceChar(Strip(s), "-", "/")

parse_hhmm(raw) ==
  LET s == Strip(raw)
      shape(n) == /\ Len(s) = n + 3
                  /\ \A j \in 1..n : IsDigit(s[j])
                  /\ s[n + 1] = ":"
                  /\ IsDigit(s[n + 2])
                  /\ IsDigit(s[n + 3])
  IN IF shape(2) THEN <<IntOf(SubSeq(s, 1, 2)), IntOf(SubSeq(s, 4, 5))>>
     ELSE IF shape(1) THEN <<IntOf(SubSeq(s, 1, 1)), IntOf(SubSeq(s, 3, 4))>>
     ELSE None

\* f"{h}toki{m:02d}fun"
RenderHM(p) == IntStr(p[1]) \o <<"toki">> \o Pad2(p[2]) \o <<"fun">>

\* faulty variant: a lone parseable side is rendered alone
format_time_jp_one_side(start, end) ==
  LET ps == parse_hhmm(start)
      pe == parse_hhmm(end)
  IN IF ps # None /\ pe # None THEN RenderHM(ps) \o <<"nami">> \o RenderHM(pe)
     ELSE IF ps # None THEN RenderHM(ps)
     ELSE IF pe # None THEN RenderHM(pe)
     ELSE LET s == Strip(start)
              e == Strip(end)
          IN IF s = <<>> /\ e = <<>> THEN <<>> ELSE s \o <<"nami">> \o e

format_time_jp(start, end) ==
  LET ps == parse_hhmm(start)
      pe == parse_hhmm(end)
  IN IF ps = None \/ pe = None
     THEN LET s == Strip(start)
              e == Strip(end)
          IN IF s = <<>> /\ e = <<>> THEN <<>> ELSE s \o <<"nami">> \o e
     ELSE RenderHM(ps) \o <<"nami">> \o RenderHM(pe)

FORBIDDEN_TITLE_CHARS == {":", "/", "\\", "?", "*", "[", "]"}

MAX_TITLE_LEN == 31

safe_sheet_name(name) ==
  Take(Strip([i \in 1..Len(name) |->
                IF name[i] \in FORBIDDEN_TITLE_CHARS THEN "_" ELSE name[i]]),
       MAX_TITLE_LEN)

\* Column names of userCaseDaily
DATE_CANDIDATES == <<"hizuke", "nengappi", "shien-jisshibi">>

NOTE_CANDIDATES ==
  <<"biko", "bikoran", "honnin-tono-renraku", "renraku", "renraku-jiko">>

PROGRAM_SLOTS ==
  << <<"gozen-program", "gozen-program-shosai">>,
     <<"gogo1-program", "gogo1-program-shosai">>,
     <<"gogo2-program", "gogo2-program-shosai">>,
     <<"shujitsu-program", "shujitsu-program-shosai">> >>

\* keys is list(daily_rows[0].keys()), the header in file order
pick_date_column(keys) ==
  LET found == {n \in 1..Len(DATE_CANDIDATES) : DATE_CANDIDATES[n] \in Range(keys)}
  IN IF found = {} THEN keys[1]
     ELSE DATE_CANDIDATES[CHOOSE n \in found : \A m \in found : n <= m]

pick_daily_note(daily) ==
  LET found == {n \in 1..Len(NOTE_CANDIDATES) :
                  Strip(Get(daily, NOTE_CANDIDATES[n])) # <<>>}
  IN IF found = {} THEN <<>>
     ELSE Strip(Get(daily, NOTE_CANDIDATES[CHOOSE n \in found : \A m \in found : n <= m]))

\* the blocks that add() appends for slots n..4
RECURSIVE ProgramBlocks(_, _)
ProgramBlocks(d, n) ==
  IF n > Len(PROGRAM_SLOTS) THEN <<>>
  ELSE LET p == Strip(Get(d, PROGRAM_SLOTS[n][1]))
           detail == Strip(Get(d, PROGRAM_SLOTS[n][2]))
           block == IF p # <<>> /\ detail # <<>> THEN p \o <<"LF">> \o detail
                    ELSE p \o detail
       IN (IF p # <<>> \/ detail # <<>> THEN <<block>> ELSE <<>>)
            \o ProgramBlocks(d, n + 1)

build_program(d) == Join(ProgramBlocks(d, 1), <<"LF">>)

METHOD_HOME == <<"ri", "you", "sha", "taku">>

METHOD_OFFICE == <<"koto", "gyou", "tokoro">>

normalize_method(raw) ==
  IF Contains(raw, <<"zai", "taku">>) /\ ~Contains(raw, <<"tsuu", "tokoro">>)
  THEN METHOD_HOME ELSE METHOD_OFFICE

\* characters that are not \w; every other character of the model is a
\* letter, a digit or the underscore
NON_WORD_CHARS ==
  {" ", "TAB", "LF", ":", "/", "-", ".", "\\", "?", "*", "[", "]",
   "nami", "nakaguro", "degC"}

IsWord(c) == c \notin NON_WORD_CHARS

CONTACT_CAP == 30

ELLIPSIS == <<"nakaguro", "nakaguro", "nakaguro", "nakaguro">>

\* length of the match of \b\d{1,2}:\d{2}\b that starts at index i (0: none)
TimeTokenAt(s, i) ==
  LET m(n) == /\ i + n + 2 <= Len(s)
              /\ \A j \in 0..(n - 1) : IsDigit(s[i + j])
              /\ s[i + n] = ":"
              /\ IsDigit(s[i + n + 1])
              /\ IsDigit(s[i + n + 2])
              /\ (i + n + 2 = Len(s) \/ ~IsWord(s[i + n + 3]))
  IN IF i > 1 /\ IsWord(s[i - 1]) THEN 0
     ELSE IF m(2) THEN 5
     ELSE IF m(1) THEN 4
     ELSE 0

\* re.split(r"(\b\d{1,2}:\d{2}\b)", s)
RECURSIVE SplitTimes(_)
SplitTimes(s) ==
  LET hits == {i \in 1..Len(s) : TimeTokenAt(s, i) > 0}
  IN IF hits = {} THEN <<s>>
     ELSE LET i == CHOOSE m \in hits : \A n \in hits : m <= n
              w == TimeTokenAt(s, i)
          IN <<SubSeq(s, 1, i - 1), SubSeq(s, i, i + w - 1)>>
               \o SplitTimes(DropN(s, i + w - 1))

Truncate30(body) ==
  IF Len(body) > CONTACT_CAP THEN Take(body, CONTACT_CAP) \o ELLIPSIS ELSE body

\* the while loop over parts, from index i (1-based)
RECURSIVE ContactLines(_, _)
ContactLines(parts, i) ==
  IF i > Len(parts) THEN <<>>
  ELSE IF parts[i] # <<>> /\ TimeTokenAt(parts[i], 1) = Len(parts[i])
       THEN LET msg == Strip(IF i + 1 <= Len(parts) THEN parts[i + 1] ELSE <<>>)
            IN <<RStrip(parts[i] \o <<" ">> \o Truncate30(msg))>>
                 \o ContactLines(parts, i + 2)
       ELSE ContactLines(parts, i + 1)

format_contact_text(raw) ==
  LET text == Strip(raw)
      parts == SplitTimes(text)
  IN IF text = <<>> THEN <<>>
     ELSE IF Len(parts) = 1 THEN Truncate30(text)
     ELSE Join(SelectSeq(ContactLines(parts, 1), LAMBDA ln : ln # <<>>), <<"LF">>)

NOT_MEASURED == <<"mi", "ken", "on">>

\* "mi-ken-on" if temp == "" else f"{temp}degC"  (lines 371-372)
temp_display(daily) ==
  LET temp == Strip(Get(daily, COL_TEMP))
  IN IF temp = <<>> THEN NOT_MEASURED ELSE temp \o <<"degC">>

(***************************************************************************)
(* CSV reading.  A file is [encoding, header, rows]: header a sequence of  *)
(* distinct column names, rows a sequence of value sequences as long as    *)
(* the header.  encoding "none" is a file none of the four codecs decodes. *)
(***************************************************************************)
EmptyDict == [c \in {} |-> <<>>]

read_csv_dicts(file) ==
  [n \in 1..Len(file.rows) |->
     [c \in Range(file.header) |->
        Strip(file.rows[n][CHOOSE j \in 1..Len(file.header) : file.header[j] = c])]]

(***************************************************************************)
(* The workbook: a sequence of sheets [title, cell], cell a function from  *)
(* the cell addresses of CELL_MAP to their values.                         *)
(***************************************************************************)
SheetNames(doc) == [n \in 1..Len(doc) |-> doc[n].title]

\* wb[title]: the first sheet with that title
SheetIndex(doc, title) ==
  CHOOSE n \in 1..Len(doc) :
    doc[n].title = title /\ \A m \in 1..(n - 1) : doc[m].title # title

\* del wb[title]
DeleteSheet(doc, title) ==
  LET n == SheetIndex(doc, title)
  IN SubSeq(doc, 1, n - 1) \o SubSeq(doc, n + 1, Len(doc))

\* wb.copy_worksheet(tpl): a copy of the template sheet appended to the
\* workbook under the title "<title> Copy"
copy_worksheet(doc, tpl) ==
  Append(doc, [title |-> tpl.title \o <<" ", "C", "o", "p", "y">>,
               cell |-> tpl.cell])

\* ws.title = name and the nine ws[...].value = ... writes on the last sheet
\* of the workbook (the copy just made)
WriteSheet(doc, name, values) ==
  [doc EXCEPT ![Len(doc)] =
     [title |-> name,
      cell |-> [c \in DOMAIN doc[Len(doc)].cell |->
                  IF \E f \in DOMAIN CELL_MAP : CELL_MAP[f] = c
                  THEN values[CHOOSE f \in DOMAIN CELL_MAP : CELL_MAP[f] = c]
                  ELSE doc[Len(doc)].cell[c]]]]

(***************************************************************************)
(* generate(): the per-row computations                                    *)
(***************************************************************************)
REQUIRED == <<COL_OFFICE, COL_NAME, COL_DATE, COL_STATUS, COL_START, COL_END>>

\* faulty variant: the tokens are compared without the tests that both exist
ensure_same_month_unguarded(user_path, case_path) ==
  extract_yyyymm_from_filename(user_path) # extract_yyyymm_from_filename(case_path)

\* ensure_same_month raises
ensure_same_month(user_path, case_path) ==
  LET u == extract_yyyymm_from_filename(user_path)
      c == extract_yyyymm_from_filename(case_path)
  IN u # None /\ c # None /\ u # c

\* faulty variant: a date already in the index keeps its first record
PutDictFirstWins(m, key, r) ==
  [d \in (DOMAIN m) \cup {key} |-> IF d \in DOMAIN m THEN m[d] ELSE r]

\* daily_by_date[key] = r
PutDict(m, key, r) ==
  [d \in (DOMAIN m) \cup {key} |-> IF d = key THEN r ELSE m[d]]

\* the loop of lines 320-321 from row n on
RECURSIVE IndexRows(_, _, _, _)
IndexRows(rows, col, n, m) ==
  IF n > Len(rows) THEN m
  ELSE IndexRows(rows, col, n + 1,
                 PutDict(m, normalize_date(Get(rows[n], col)), rows[n]))

\* daily_by_date.get(date, {})
LookupDaily(m, date) == IF date \in DOMAIN m THEN m[date] ELSE EmptyDict

RowStatus(r) == Strip(Get(r, COL_STATUS))

RowDate(r) == normalize_date(Get(r, COL_DATE))

\* faulty variant: the empty-date continue of lines 340-341 is missing
RowQualifiesNoDateCheck(r) ==
  /\ RowStatus(r) # ABSENT_SKIP_VALUE
  /\ RowStatus(r) = ATTEND_VALUE

\* the row passes the three continue statements of lines 334-341
RowQualifies(r) ==
  /\ RowStatus(r) # ABSENT_SKIP_VALUE
  /\ RowStatus(r) = ATTEND_VALUE
  /\ RowDate(r) # <<>>

\* f"{date.replace('/','')[:8]}_{name.strip()}"  (line 345)
base_title(r) ==
  Take(RemoveChar(RowDate(r), "/"), 8) \o <<"_">> \o Strip(Get(r, COL_NAME))

\* faulty variant: the suffix is appended after the sanitation, not before it
CandidateUnsanitized(base, n) == safe_sheet_name(base) \o <<"_">> \o IntStr(n)

\* cand = safe_sheet_name(f"{sheet_base}_{k}")
Candidate(base, n) == safe_sheet_name(base \o <<"_">> \o IntStr(n))

\* faulty variant: the candidate is compared with the template sheet's title only
TitleFreeOfTemplate(names, cand) == cand # TEMPLATE_SHEET

\* cand not in wb.sheetnames
TitleFree(names, cand) == cand \notin Range(names)

\* raw_contact of lines 376-378
raw_contact(r, daily) ==
  LET daily_note == pick_daily_note(daily)
      cm_note == Strip(IF Get(r, COL_NOTE) # <<>> THEN Get(r, COL_NOTE)
                       ELSE Get(r, COL_REMARKS))
  IN IF daily_note # <<>> THEN daily_note ELSE cm_note

\* the values written to the nine cells of a row's sheet
RowValues(r, daily) ==
  [office |-> Get(r, COL_OFFICE),
   date |-> RowDate(r),
   user |-> Get(r, COL_NAME),
   time |-> format_time_jp(Get(r, COL_START), Get(r, COL_END)),
   method |-> normalize_method(Get(r, COL_REMARKS)),
   program |-> build_program(daily),
   dayreport |-> Get(r, COL_REPORT),
   temp |-> temp_display(daily),
   slack |-> format_contact_text(raw_contact(r, daily))]

(***************************************************************************)
(* Inputs: the two path arguments of generate() and the world it reads     *)
(* (the file system and the user's answer to the overwrite question).      *)
(***************************************************************************)
MaxRows == 3

MaxDaily == 3

MaxK == 6

\* file names (Path.name)
USER_202501 == <<"u", "s", "e", "r", "C", "a", "s", "e", "D", "a", "i", "l", "y", "_", "2", "0", "2", "5", "0", "1", ".", "c", "s", "v">>
USER_202502 == <<"u", "s", "e", "r", "C", "a", "s", "e", "D", "a", "i", "l", "y", "_", "2", "0", "2", "5", "0", "2", ".", "c", "s", "v">>
USER_PLAIN == <<"u", "s", "e", "r", "C", "a", "s", "e", "D", "a", "i", "l", "y", ".", "c", "s", "v">>
USER_5DIGITS == <<"u", "s", "e", "r", "C", "a", "s", "e", "D", "a", "i", "l", "y", "_", "2", "0", "2", "5", "0", ".", "c", "s", "v">>
CASE_202501 == <<"c", "a", "s", "e", "D", "a", "i", "l", "y", "_", "2", "0", "2", "5", "0", "1", ".", "c", "s", "v">>
CASE_PLAIN == <<"c", "a", "s", "e", "D", "a", "i", "l", "y", ".", "c", "s", "v">>
CASE_7DIGITS == <<"c", "a", "s", "e", "D", "a", "i", "l", "y", "_", "v", "2", "_", "2", "0", "2", "5", "0", "2", "0", ".", "c", "s", "v">>

UserNames == {USER_202501, USER_202502, USER_PLAIN, USER_5DIGITS}

CaseNames == {CASE_202501, CASE_PLAIN, CASE_7DIGITS}

\* raw CSV values
DATE_10 == <<"2", "0", "2", "5", "/", "0", "1", "/", "1", "0">>
DATE_10_HYPHEN == <<" ", "2", "0", "2", "5", "-", "0", "1", "-", "1", "0">>
DATE_10_TIME == <<"2", "0", "2", "5", "/", "0", "1", "/", "1", "0", " ", "9", ":", "0", "0">>
NAME_A == <<"a">>
NAME_A2 == <<"a", "_", "2">>
NAME_A_COLON == <<"a", ":", "2">>
\* with an 8-digit date the base title has exactly MAX_TITLE_LEN characters
NAME_LONG == [n \in 1..(MAX_TITLE_LEN - 9) |-> "n"]
\* the base title is one character shorter than MAX_TITLE_LEN
NAME_LONG1 == [n \in 1..(MAX_TITLE_LEN - 10) |-> "m"]
OTHER_STATUS == <<"ketsu", "seki">>
T_0900 == <<"9", ":", "0", "0">>
T_1730 == <<"1", "7", ":", "3", "0">>

CASE_HEADER ==
  <<COL_OFFICE, COL_NAME, COL_DATE, COL_STATUS, COL_START, COL_END,
    COL_REMARKS, COL_NOTE, COL_REPORT>>

\* one line of caseDaily under CASE_HEADER
CaseLine(status, date, name, start, end, remarks, note) ==
  <<<<"o">>, name, date, status, start, end, remarks, note, <<"r">>>>

PlainLine(status, date, name) ==
  CaseLine(status, date, name, T_0900, T_1730, <<>>, <<>>)

CaseFile(lines) == [encoding |-> "cp932", header |-> CASE_HEADER, rows |-> lines]

\* a caseDaily without the start-time column
CASE_NO_START ==
  [encoding |-> "cp932",
   header |-> <<COL_OFFICE, COL_NAME, COL_DATE, COL_STATUS, COL_END>>,
   rows |-> <<<<<<"o">>, NAME_A, DATE_10, ATTEND_VALUE, T_1730>>>>]

CASE_DEFAULT == CaseFile(<<PlainLine(ATTEND_VALUE, DATE_10, NAME_A)>>)

CASE_EMPTY == CaseFile(<<>>)

CASE_UNDECODABLE == [encoding |-> "none", header |-> <<>>, rows |-> <<>>]

DAILY_HEADER ==
  <<"hizuke", COL_TEMP, "gozen-program", "gozen-program-shosai", "biko">>

\* no date candidate among the column names: the first column is the date
DAILY_HEADER_ALT ==
  <<"date", COL_TEMP, "gozen-program", "gozen-program-shosai", "biko">>

DailyFile(header, lines) == [encoding |-> "cp932", header |-> header, rows |-> lines]

DAILY_DEFAULT ==
  DailyFile(DAILY_HEADER,
            <<<<DATE_10, <<"3", "6", ".", "5">>, <<"p">>, <<"d">>, <<>>>>>>)

DAILY_EMPTY == DailyFile(DAILY_HEADER, <<>>)

\* template workbooks
BlankCells == [c \in Cells |-> <<>>]

FormatSheet == [title |-> TEMPLATE_SHEET, cell |-> [BlankCells EXCEPT !["B3"] = <<"f">>]]

OtherSheet(title) == [title |-> title, cell |-> [BlankCells EXCEPT !["B3"] = <<"s">>]]

TPL_STD == <<FormatSheet, OtherSheet(SAMPLE_SHEET)>>

\* a template that already holds a sheet with a generated title
TPL_TAKEN == <<FormatSheet, OtherSheet(<<"2", "0", "2", "5", "0", "1", "1", "0", "_", "a", "_", "2">>)>>

TPL_NO_FORMAT == <<OtherSheet(SAMPLE_SHEET)>>

TPL_SAMPLES ==
  <<OtherSheet(<<"s", "a", "m", "p", "l", "e">>), FormatSheet, OtherSheet(SAMPLE_SHEET),
    OtherSheet(<<"S", "A", "M", "P", "L", "E", "2">>), OtherSheet(<<"M", "y", "S", "a", "m", "p", "l", "e">>)>>

\* a file load_workbook cannot read
TPL_CORRUPT == <<>>

World(tplExists, caseFile, dailyFile, outExists, answerYes, template, outLocked) ==
  [tplExists |-> tplExists, caseFile |-> caseFile, dailyFile |-> dailyFile,
   outExists |-> outExists, answerYes |-> answerYes, template |-> template,
   outLocked |-> outLocked]

Input(u, c, w) == [user_csv |-> u, case_csv |-> c, fs |-> w]

\* all sequences over S of length 1..n
RECURSIVE SeqsUpTo(_, _)
SeqsUpTo(S, n) ==
  IF n = 0 THEN {}
  ELSE LET shorter == SeqsUpTo(S, n - 1)
       IN {<<x>> : x \in S} \cup shorter \cup {Append(q, x) : q \in shorter, x \in S}

\* the file names: every pair, in a world where every other guard passes
NameInputs ==
  {Input(u, c, World(TRUE, CASE_DEFAULT, DAILY_DEFAULT, FALSE, FALSE, TPL_STD, FALSE)) :
     u \in UserNames, c \in CaseNames}

\* the guards of generate(): every combination of passing and failing
GuardInputs ==
  {Input(u, CASE_202501, World(te, cf, df, oe, ay, t, ol)) :
     u \in {USER_202501, USER_202502, USER_PLAIN}, te \in BOOLEAN,
     cf \in {CASE_DEFAULT, CASE_EMPTY, CASE_NO_START, CASE_UNDECODABLE},
     df \in {DAILY_DEFAULT, DAILY_EMPTY},
     oe \in BOOLEAN, ay \in BOOLEAN,
     t \in {TPL_STD, TPL_NO_FORMAT, TPL_SAMPLES, TPL_CORRUPT},
     ol \in BOOLEAN}

\* rows that differ in status and date
StatusLines ==
  {PlainLine(ATTEND_VALUE, DATE_10, NAME_A),
   PlainLine(ATTEND_VALUE, DATE_10_HYPHEN, NAME_A2),
   PlainLine(ATTEND_VALUE, <<" ">>, NAME_A),
   PlainLine(ABSENT_SKIP_VALUE, DATE_10, NAME_A),
   PlainLine(OTHER_STATUS, DATE_10, NAME_A)}

\* attended rows of one date that differ in the name
TitleLines ==
  {PlainLine(ATTEND_VALUE, DATE_10, NAME_A),
   PlainLine(ATTEND_VALUE, DATE_10, NAME_A2),
   PlainLine(ATTEND_VALUE, DATE_10, NAME_A_COLON),
   PlainLine(ATTEND_VALUE, DATE_10, NAME_LONG),
   PlainLine(ATTEND_VALUE, DATE_10, NAME_LONG1)}

\* the attendance rows: every sequence of up to MaxRows lines
RowInputs ==
  {Input(USER_202501, CASE_202501,
         World(TRUE, CaseFile(lines), DAILY_DEFAULT, FALSE, FALSE, TPL_STD, FALSE)) :
     lines \in SeqsUpTo(StatusLines, MaxRows) \cup SeqsUpTo(TitleLines, MaxRows)}
  \cup
  {Input(USER_202501, CASE_202501,
         World(TRUE, CaseFile(lines), DAILY_DEFAULT, FALSE, FALSE, TPL_TAKEN, FALSE)) :
     lines \in SeqsUpTo(TitleLines, MaxRows)}

DailyLines ==
  {<<DATE_10, <<"3", "6", ".", "5">>, <<"p">>, <<"d">>, <<>>>>,
   <<DATE_10_HYPHEN, <<>>, <<>>, <<"e">>, <<"n">>>>,
   <<DATE_10, <<"3", "7">>, <<"q">>, <<>>, <<>>>>,
   <<<<>>, <<"3", "5">>, <<"z">>, <<>>, <<>>>>}

\* the join: every daily log of up to MaxDaily lines against one attended row
JoinInputs ==
  {Input(USER_202501, CASE_202501,
         World(TRUE, CaseFile(<<PlainLine(ATTEND_VALUE, d, NAME_A)>>),
               DailyFile(h, lines), FALSE, FALSE, TPL_STD, FALSE)) :
     d \in {DATE_10, DATE_10_HYPHEN, DATE_10_TIME},
     h \in {DAILY_HEADER, DAILY_HEADER_ALT},
     lines \in SeqsUpTo(DailyLines, MaxDaily)}

TimeStrings ==
  {<<>>, <<" ">>, T_0900, T_1730, <<"0", "9", ":", "0", "5">>, <<" ", "9", ":", "0", "0", " ">>, <<"9", ":", "0">>,
   <<"1", "2", "3", ":", "0", "0">>, <<"9", ":", "0", "0", ":", "0", "0">>, <<"9", "toki", "0", "0", "fun">>, <<"a", "m">>}

RemarkStrings ==
  {<<>>, <<"zai", "taku">>, <<"tsuu", "tokoro", " ", "zai", "taku">>,
   <<"1", "0", ":", "3", "5", " ", "t", "e", "l", " ", "1", "1", ":", "1", "0", " ", "o", "k">>}

\* the free-text fields of one attended row
FieldInputs ==
  {Input(USER_202501, CASE_202501,
         World(TRUE,
               CaseFile(<<CaseLine(ATTEND_VALUE, DATE_10, NAME_A, st, en, rm, nt)>>),
               DAILY_DEFAULT, FALSE, FALSE, TPL_STD, FALSE)) :
     st \in TimeStrings, en \in TimeStrings,
     rm \in RemarkStrings, nt \in {<<>>, <<"x">>}}

Inputs == NameInputs \cup GuardInputs \cup RowInputs \cup JoinInputs \cup FieldInputs

(***************************************************************************)
(* generate() as a state machine.  pc is the position in the function;     *)
(* the other variables are its arguments, the world, its locals, and the   *)
(* output file.                                                            *)
(***************************************************************************)
VARIABLES
  user_csv,       \* argument: name of the userCaseDaily file
  case_csv,       \* argument: name of the caseDaily file
  fs,             \* the world: files, template, the user's answer
  pc,             \* position in generate()
  err,            \* the exception generate() ended with ("" if none)
  case_rows,      \* local
  daily_rows,     \* local
  wb,             \* local: the open workbook
  date_col,       \* local
  daily_by_date,  \* local
  row,            \* index in case_rows of the for loop's r (1-based)
  sheet_base,     \* local
  sheet_name,     \* local
  k,              \* local
  created,        \* local
  emitted,        \* history: for each title resolved, its row and suffix number (1: none)
  saved           \* the output file: the workbooks written by wb.save, in order

vars ==
  <<user_csv, case_csv, fs, pc, err, case_rows, daily_rows, wb, date_col,
    daily_by_date, row, sheet_base, sheet_name, k, created, emitted, saved>>

locals ==
  <<case_rows, daily_rows, wb, date_col, daily_by_date, row, sheet_base,
    sheet_name, k, created, emitted>>

Init ==
  /\ \E in \in Inputs :
       /\ user_csv = in.user_csv
       /\ case_csv = in.case_csv
       /\ fs = in.fs
  /\ pc = "template"
  /\ err = ""
  /\ case_rows = <<>>
  /\ daily_rows = <<>>
  /\ wb = <<>>
  /\ date_col = ""
  /\ daily_by_date = EmptyDict
  /\ row = 0
  /\ sheet_base = <<>>
  /\ sheet_name = <<>>
  /\ k = 0
  /\ created = 0
  /\ emitted = <<>>
  /\ saved = <<>>

\* raise: generate() ends with exception e
Raise(e) == pc' = "error" /\ err' = e

Goto(p) == pc' = p /\ err' = err

\* lines 278-279, load_template_or_fail
LoadTemplateOrFail ==
  /\ pc = "template"
  /\ IF fs.tplExists THEN Goto("month") ELSE Raise("FileNotFoundError")
  /\ UNCHANGED <<user_csv, case_csv, fs, locals, saved>>

\* line 282
EnsureSameMonth ==
  /\ pc = "month"
  /\ IF ensure_same_month(user_csv, case_csv)
     THEN Raise("ValueError") ELSE Goto("read")
  /\ UNCHANGED <<user_csv, case_csv, fs, locals, saved>>

\* lines 285-290
ReadLogs ==
  /\ pc = "read"
  /\ IF fs.caseFile.encoding = "none" \/ fs.dailyFile.encoding = "none"
     THEN /\ Raise("RuntimeError: encoding")
          /\ UNCHANGED <<case_rows, daily_rows>>
     ELSE /\ case_rows' = read_csv_dicts(fs.caseFile)
          /\ daily_rows' = read_csv_dicts(fs.dailyFile)
          /\ IF case_rows' = <<>> THEN Raise("RuntimeError: caseDaily empty")
             ELSE IF daily_rows' = <<>> THEN Raise("RuntimeError: userCaseDaily empty")
             ELSE Goto("overwrite")
  /\ UNCHANGED <<user_csv, case_csv, fs, wb, date_col, daily_by_date, row,
                 sheet_base, sheet_name, k, created, emitted, saved>>

\* faulty variant: the answer to the overwrite question is ignored
ConfirmOverwriteIgnored ==
  /\ pc = "overwrite"
  /\ Goto("load")
  /\ UNCHANGED <<user_csv, case_csv, fs, locals, saved>>

\* lines 297-301
ConfirmOverwrite ==
  /\ pc = "overwrite"
  /\ IF fs.outExists /\ ~fs.answerYes
     THEN Raise("RuntimeError: cancelled") ELSE Goto("load")
  /\ UNCHANGED <<user_csv, case_csv, fs, locals, saved>>

\* lines 304-307
LoadWorkbook ==
  /\ pc = "load"
  /\ IF fs.template = TPL_CORRUPT
     THEN Raise("RuntimeError: template") /\ wb' = wb
     ELSE Goto("format") /\ wb' = fs.template
  /\ UNCHANGED <<user_csv, case_csv, fs, case_rows, daily_rows, date_col,
                 daily_by_date, row, sheet_base, sheet_name, k, created, emitted, saved>>

\* lines 309-311
CheckFormatSheet ==
  /\ pc = "format"
  /\ IF TEMPLATE_SHEET \notin Range(SheetNames(wb))
     THEN Raise("RuntimeError: no Format sheet") ELSE Goto("sample")
  /\ UNCHANGED <<user_csv, case_csv, fs, locals, saved>>

\* lines 314-315 applied to workbook doc
delete_sample(doc) ==
  IF SAMPLE_SHEET \in Range(SheetNames(doc)) THEN DeleteSheet(doc, SAMPLE_SHEET)
  ELSE doc

DeleteSample ==
  /\ pc = "sample"
  /\ wb' = delete_sample(wb)
  /\ Goto("index")
  /\ UNCHANGED <<user_csv, case_csv, fs, case_rows, daily_rows, date_col,
                 daily_by_date, row, sheet_base, sheet_name, k, created, emitted, saved>>

\* lines 318-321
BuildIndex ==
  /\ pc = "index"
  /\ date_col' = pick_date_column(fs.dailyFile.header)
  /\ daily_by_date' = IndexRows(daily_rows, date_col', 1, EmptyDict)
  /\ Goto("required")
  /\ UNCHANGED <<user_csv, case_csv, fs, case_rows, daily_rows, wb, row,
                 sheet_base, sheet_name, k, created, emitted, saved>>

\* lines 324-329
CheckRequired ==
  /\ pc = "required"
  /\ IF \E n \in 1..Len(REQUIRED) : REQUIRED[n] \notin DOMAIN case_rows[1]
     THEN Raise("RuntimeError: required column") /\ UNCHANGED <<row, created>>
     ELSE Goto("rows") /\ row' = 1 /\ created' = 0
  /\ UNCHANGED <<user_csv, case_csv, fs, case_rows, daily_rows, wb, date_col,
                 daily_by_date, sheet_base, sheet_name, k, emitted, saved>>

\* lines 330-341: one of the three continue statements
SkipRow ==
  /\ pc = "rows"
  /\ row <= Len(case_rows)
  /\ ~RowQualifies(case_rows[row])
  /\ row' = row + 1
  /\ Goto("rows")
  /\ UNCHANGED <<user_csv, case_csv, fs, case_rows, daily_rows, wb, date_col,
                 daily_by_date, sheet_base, sheet_name, k, created, emitted, saved>>

\* lines 343-348: the base title, and k = 2 when it is taken
BaseTitle ==
  /\ pc = "rows"
  /\ row <= Len(case_rows)
  /\ RowQualifies(case_rows[row])
  /\ sheet_base' = base_title(case_rows[row])
  /\ sheet_name' = safe_sheet_name(sheet_base')
  /\ IF TitleFree(SheetNames(wb), sheet_name')
     THEN /\ Goto("copy")
          /\ k' = k
          /\ emitted' = Append(emitted, [row |-> row, suffix |-> 1])
     ELSE /\ Goto("collide")
          /\ k' = 2
          /\ emitted' = emitted
  /\ UNCHANGED <<user_csv, case_csv, fs, case_rows, daily_rows, wb, date_col,
                 daily_by_date, row, created, saved>>

\* lines 349-354: one iteration of the while loop (k is capped at MaxK)
TryCandidate ==
  /\ pc = "collide"
  /\ LET cand == Candidate(sheet_base, k)
     IN IF TitleFree(SheetNames(wb), cand)
        THEN /\ sheet_name' = cand
             /\ k' = k
             /\ emitted' = Append(emitted, [row |-> row, suffix |-> k])
             /\ Goto("copy")
        ELSE /\ k < MaxK
             /\ sheet_name' = sheet_name
             /\ k' = k + 1
             /\ emitted' = emitted
             /\ Goto("collide")
  /\ UNCHANGED <<user_csv, case_csv, fs, case_rows, daily_rows, wb, date_col,
                 daily_by_date, row, sheet_base, created, saved>>

\* faulty variant: the nine values are written to the template sheet, not to its copy
emit_sheet_into_template(doc, r, name, index) ==
  LET t == SheetIndex(doc, TEMPLATE_SHEET)
      filled == WriteSheet(copy_worksheet(doc, doc[t]), name,
                           RowValues(r, LookupDaily(index, RowDate(r))))
  IN [filled EXCEPT ![t].cell = filled[Len(filled)].cell,
                    ![Len(filled)].cell = doc[t].cell]

\* lines 356-379 applied to workbook doc for row r under title name
emit_sheet(doc, r, name, index) ==
  WriteSheet(copy_worksheet(doc, doc[SheetIndex(doc, TEMPLATE_SHEET)]), name,
             RowValues(r, LookupDaily(index, RowDate(r))))

\* lines 356-381
CopyAndFill ==
  /\ pc = "copy"
  /\ wb' = emit_sheet(wb, case_rows[row], sheet_name, daily_by_date)
  /\ created' = created + 1
  /\ row' = row + 1
  /\ Goto("rows")
  /\ UNCHANGED <<user_csv, case_csv, fs, case_rows, daily_rows, date_col,
                 daily_by_date, sheet_base, sheet_name, k, emitted, saved>>

\* the for loop is exhausted
EndRows ==
  /\ pc = "rows"
  /\ row > Len(case_rows)
  /\ Goto("save")
  /\ UNCHANGED <<user_csv, case_csv, fs, locals, saved>>

\* lines 384-389
Save ==
  /\ pc = "save"
  /\ IF fs.outLocked
     THEN Raise("PermissionError") /\ saved' = saved
     ELSE Goto("done") /\ saved' = Append(saved, wb)
  /\ UNCHANGED <<user_csv, case_csv, fs, locals>>

Next ==
  \/ LoadTemplateOrFail
  \/ EnsureSameMonth
  \/ ReadLogs
  \/ ConfirmOverwrite
  \/ LoadWorkbook
  \/ CheckFormatSheet
  \/ DeleteSample
  \/ BuildIndex
  \/ CheckRequired
  \/ SkipRow
  \/ BaseTitle
  \/ TryCandidate
  \/ CopyAndFill
  \/ EndRows
  \/ Save

Spec == Init /\ [][Next]_vars

\* generate() is sequential code: the while loop, once entered, keeps
\* taking its next iteration
FairSpec == Spec /\ WF_vars(TryCandidate)

(***************************************************************************)
(* Vocabulary of the properties                                            *)
(***************************************************************************)
\* generate() has passed the required-column check: the for loop has begun
InLoop == pc \in {"rows", "collide", "copy", "save", "done"}

\* the attendance row has exactly the attended status and a non-empty
\* normalized visit-date
Attended(r) ==
  /\ Get(r, COL_STATUS) = ATTEND_VALUE
  /\ ReplaceChar(Strip(Get(r, COL_DATE)), "-", "/") # <<>>

\* the sheets of the template that are not the sheet named Sample
TemplateKept ==
  Cardinality({n \in 1..Len(fs.template) : fs.template[n].title # SAMPLE_SHEET})

\* the rows before index n that are attended
AttendedBefore(n) == {m \in 1..(n - 1) : Attended(case_rows[m])}

\* the title of the j-th sheet of the run (its title is resolved before the
\* sheet is created)
TitleOf(j) ==
  IF TemplateKept + j <= Len(wb) THEN wb[TemplateKept + j].title ELSE sheet_name

\* the titles in the workbook before the j-th sheet of the run
TitlesBefore(j) == {wb[n].title : n \in 1..(TemplateKept + j - 1)}

\* the six-digit token after the first underscore that six digits follow
TokenPlaces(name) ==
  {n \in 1..Len(name) :
     /\ name[n] = "_"
     /\ n + 6 <= Len(name)
     /\ \A j \in 1..6 : name[n + j] \in {"0", "1", "2", "3", "4", "5", "6", "7", "8", "9"}}

TokenOf(name) ==
  LET n == CHOOSE a \in TokenPlaces(name) : \A b \in TokenPlaces(name) : a <= b
  IN SubSeq(name, n + 1, n + 6)

MonthsDisagree ==
  /\ TokenPlaces(user_csv) # {}
  /\ TokenPlaces(case_csv) # {}
  /\ TokenOf(user_csv) # TokenOf(case_csv)

(***************************************************************************)
(* C1: at every point of the for loop the number of sheets added to the    *)
(* workbook is the number of rows already passed that have exactly the     *)
(* attended status and a non-empty normalized date, and the sheets added   *)
(* are those rows' sheets in row order; so a run that reaches the save has *)
(* added one sheet per such row and none for any other row.                *)
(***************************************************************************)
\* C1: sheets added = attended rows passed, in row order
OneSheetPerAttendedRow ==
  InLoop =>
    /\ Len(wb) - TemplateKept = Cardinality(AttendedBefore(row))
    /\ \A m \in AttendedBefore(row) :
         LET sheet == wb[TemplateKept + Cardinality(AttendedBefore(m)) + 1]
         IN /\ sheet.cell[CELL_MAP.user] = case_rows[m][COL_NAME]
            /\ sheet.cell[CELL_MAP.date] = ReplaceChar(case_rows[m][COL_DATE], "-", "/")

\* C1 witness: a finished run over three rows, two attended, the other
\* absence-handled
OneSheetPerAttendedRowWitness ==
  /\ pc = "done"
  /\ Len(case_rows) = 3
  /\ Cardinality(AttendedBefore(4)) = 2
  /\ \E m \in 1..3 : case_rows[m][COL_STATUS] = ABSENT_SKIP_VALUE
  /\ Len(wb) = TemplateKept + 2

(***************************************************************************)
(* C2: no two sheets of the workbook share a title, and the title resolved *)
(* for a sheet about to be created is the title of no sheet in the         *)
(* workbook.                                                               *)
(***************************************************************************)
\* C2: titles are pairwise different, and a resolved title is not in use
TitlesUnique ==
  /\ \A a, b \in 1..Len(wb) : a # b => wb[a].title # wb[b].title
  /\ pc = "copy" => \A n \in 1..Len(wb) : wb[n].title # sheet_name
  /\ \A d \in Range(saved) : \A a, b \in 1..Len(d) : a # b => d[a].title # d[b].title

\* C2 witness: two rows with the same date and name, then a row whose base
\* title is the second row's suffixed title
TitlesUniqueWitness ==
  /\ pc = "done"
  /\ Len(case_rows) = 3
  /\ case_rows[1] = case_rows[2]
  /\ case_rows[3][COL_NAME] = NAME_A2
  /\ created = 3
  /\ safe_sheet_name(base_title(case_rows[3])) = TitleOf(2)
  /\ emitted[3].suffix = 2

(***************************************************************************)
(* C3: the title-collision loop terminates: whenever generate() enters the *)
(* search over suffixes it reaches a candidate that is not in the workbook *)
(* and goes on to create the sheet.                                        *)
(***************************************************************************)
\* C3, as a property of every state of the search: of the candidates still
\* to be tried, one is not in the workbook.  The workbook holds Len(wb)
\* titles, so among Len(wb) + 1 different candidates one is free; the
\* search ends if and only if it has a free candidate ahead.
TitleSearchTerminates ==
  pc = "collide" =>
    \E n \in k..(k + Len(wb)) : Candidate(sheet_base, n) \notin Range(SheetNames(wb))

\* C3, as a property of every run of the loop under FairSpec
TitleSearchEnds == (pc = "collide") ~> (pc = "copy")

(***************************************************************************)
(* C4: the output is saved at most once, and only in a run in which every  *)
(* guard passed; a run in which a guard fails never enters the for loop    *)
(* and a run that ended with an error has saved nothing.                   *)
(***************************************************************************)
AllGuardsPass ==
  /\ fs.tplExists
  /\ ~MonthsDisagree
  /\ fs.caseFile.rows # <<>>
  /\ fs.dailyFile.rows # <<>>
  /\ fs.outExists => fs.answerYes
  /\ \E n \in 1..Len(fs.template) : fs.template[n].title = TEMPLATE_SHEET
  /\ {COL_OFFICE, COL_NAME, COL_DATE, COL_STATUS, COL_START, COL_END}
       \subseteq Range(fs.caseFile.header)

\* C4: at most one save, only after every guard, none in a failed run
SavedOnceAfterGuards ==
  /\ Len(saved) <= 1
  /\ saved # <<>> => AllGuardsPass /\ pc = "done"
  /\ ~AllGuardsPass => ~InLoop
  /\ pc = "error" => saved = <<>>

\* C4 witness: a finished run that overwrote an existing output after a yes
SavedOnceAfterGuardsWitness ==
  /\ pc = "done"
  /\ Len(saved) = 1
  /\ fs.outExists
  /\ fs.answerYes

(***************************************************************************)
(* C5: no sheet of a saved workbook has a name that contains "sample" in   *)
(* any letter case.                                                        *)
(***************************************************************************)
UPPER ==
  <<"A", "B", "C", "D", "E", "F", "G", "H", "I", "J", "K", "L", "M",
    "N", "O", "P", "Q", "R", "S", "T", "U", "V", "W", "X", "Y", "Z">>

LOWER ==
  <<"a", "b", "c", "d", "e", "f", "g", "h", "i", "j", "k", "l", "m",
    "n", "o", "p", "q", "r", "s", "t", "u", "v", "w", "x", "y", "z">>

Lower(s) ==
  [i \in 1..Len(s) |->
     IF s[i] \in Range(UPPER) THEN LOWER[CHOOSE n \in 1..26 : UPPER[n] = s[i]]
     ELSE s[i]]

\* C5: no saved sheet name contains "sample", whatever the letter case
NoSampleSheetSaved ==
  \A d \in Range(saved) : \A n \in 1..Len(d) :
    ~Contains(Lower(d[n].title), <<"s", "a", "m", "p", "l", "e">>)

(***************************************************************************)
(* C6: the time cell of a sheet, for a row of which exactly one of start   *)
(* and end parses as H:MM or HH:MM.                                        *)
(***************************************************************************)
\* the row of the j-th sheet of the run, and that sheet
RowOfSheet(j) == case_rows[emitted[j].row]

SheetOf(j) == wb[TemplateKept + j]

\* "{h}toki{mm}fun": hour unpadded, minutes two digits
HourMinute(p) ==
  IntStr(p[1]) \o <<"toki">>
    \o <<Digits[(p[2] \div 10) + 1], Digits[(p[2] % 10) + 1]>> \o <<"fun">>

\* C6 as stated: with exactly one parseable side the time cell is that side
\* alone, rendered; with none it is the raw strings joined by the tilde
OneSideRendered ==
  InLoop =>
    \A j \in 1..created :
      LET st == RowOfSheet(j)[COL_START]
          en == RowOfSheet(j)[COL_END]
          ps == parse_hhmm(st)
          pe == parse_hhmm(en)
          cell == SheetOf(j).cell[CELL_MAP.time]
      IN /\ (ps # None /\ pe = None) => cell = HourMinute(ps)
         /\ (ps = None /\ pe # None) => cell = HourMinute(pe)
         /\ (ps = None /\ pe = None) =>
              cell = IF st = <<>> /\ en = <<>> THEN <<>> ELSE st \o <<"nami">> \o en

\* C6 amended: whenever a side does not parse (one side or both), the time
\* cell is the raw trimmed strings joined by the full-width tilde, the
\* parsed side left as it was written, and empty when both are empty; when
\* both sides parse it is the two sides rendered
OneSideRaw ==
  InLoop =>
    \A j \in 1..created :
      LET st == RowOfSheet(j)[COL_START]
          en == RowOfSheet(j)[COL_END]
          ps == parse_hhmm(st)
          pe == parse_hhmm(en)
          cell == SheetOf(j).cell[CELL_MAP.time]
      IN /\ (ps = None \/ pe = None) =>
              cell = IF st = <<>> /\ en = <<>> THEN <<>> ELSE st \o <<"nami">> \o en
         /\ (ps # None /\ pe # None) =>
              cell = HourMinute(ps) \o <<"nami">> \o HourMinute(pe)

\* C6 witness: a sheet for a row whose start parses and whose end is empty
OneSideRawWitness ==
  /\ pc = "done"
  /\ created = 1
  /\ parse_hhmm(RowOfSheet(1)[COL_START]) = <<9, 5>>
  /\ RowOfSheet(1)[COL_END] = <<>>
  /\ SheetOf(1).cell[CELL_MAP.time] = <<"0", "9", ":", "0", "5", "nami">>

(***************************************************************************)
(* C7: generate() ends with the month-mismatch error exactly when both     *)
(* file names hold a six-digit token after an underscore and the tokens    *)
(* differ, and the check is made before either log is read and before the  *)
(* template workbook is opened.                                            *)
(***************************************************************************)
\* C7: the mismatch error iff both tokens exist and differ, before any read
MonthCheck ==
  /\ err = "ValueError" => MonthsDisagree
  /\ (MonthsDisagree /\ pc \notin {"template", "month"}) =>
       pc = "error" /\ err \in {"FileNotFoundError", "ValueError"}
  /\ (pc \in {"template", "month"} \/ err = "ValueError") =>
       case_rows = <<>> /\ daily_rows = <<>> /\ wb = <<>>

\* C7 witness: the mismatch error, raised for 202502 against 202501
MonthCheckWitness ==
  /\ pc = "error"
  /\ err = "ValueError"
  /\ user_csv = USER_202502
  /\ case_csv = CASE_202501

(***************************************************************************)
(* C8: the daily record behind a sheet is the last row of the daily log    *)
(* whose normalized date is the row's normalized visit-date, and an empty  *)
(* record when there is none: then the temperature cell is the             *)
(* not-measured token and the program cell is empty.                       *)
(***************************************************************************)
\* the rows of the daily log with the date of the j-th sheet's row
DailyMatches(j) ==
  {n \in 1..Len(daily_rows) :
     ReplaceChar(daily_rows[n][date_col], "-", "/")
       = ReplaceChar(RowOfSheet(j)[COL_DATE], "-", "/")}

\* C8: the last daily row of the date decides; none gives the empty record
JoinLastWins ==
  InLoop =>
    \A j \in 1..created :
      LET hits == DailyMatches(j)
          cell == SheetOf(j).cell
      IN IF hits = {}
         THEN /\ cell[CELL_MAP.temp] = NOT_MEASURED
              /\ cell[CELL_MAP.program] = <<>>
         ELSE LET last == daily_rows[CHOOSE n \in hits : \A m \in hits : m <= n]
              IN /\ cell[CELL_MAP.temp] =
                      IF last[COL_TEMP] = <<>> THEN NOT_MEASURED
                      ELSE last[COL_TEMP] \o <<"degC">>
                 /\ cell[CELL_MAP.program] = build_program(last)

\* C8 witness: a sheet whose date two daily rows carry, with different
\* temperatures; the later row's is shown
JoinLastWinsWitness ==
  /\ pc = "done"
  /\ created = 1
  /\ \E n, m \in DailyMatches(1) :
       n < m /\ daily_rows[n][COL_TEMP] # daily_rows[m][COL_TEMP]
  /\ SheetOf(1).cell[CELL_MAP.temp] = <<"3", "7", "degC">>

(***************************************************************************)
(* C9: a row whose sanitized base title is taken gets the sanitized form   *)
(* of base + "_k" for the least k >= 2 whose sanitized candidate is not in *)
(* the workbook, and over the rows that share a base title the suffix      *)
(* numbers strictly increase in row order.                                 *)
(***************************************************************************)
\* the base title of a row, before sanitation
BaseOf(r) ==
  Take(RemoveChar(ReplaceChar(r[COL_DATE], "-", "/"), "/"), 8)
    \o <<"_">> \o r[COL_NAME]

Suffixed(r, n) == safe_sheet_name(BaseOf(r) \o <<"_">> \o IntStr(n))

\* C9: the least free suffix is taken, and suffixes increase per base title
LeastFreeSuffix ==
  InLoop =>
    /\ \A j \in 1..Len(emitted) :
         LET r == RowOfSheet(j)
             n == emitted[j].suffix
         IN IF safe_sheet_name(BaseOf(r)) \notin TitlesBefore(j)
            THEN n = 1 /\ TitleOf(j) = safe_sheet_name(BaseOf(r))
            ELSE /\ n >= 2
                 /\ TitleOf(j) = Suffixed(r, n)
                 /\ Suffixed(r, n) \notin TitlesBefore(j)
                 /\ \A q \in 2..(n - 1) : Suffixed(r, q) \in TitlesBefore(j)
    /\ \A i, j \in 1..Len(emitted) :
         (i < j /\ safe_sheet_name(BaseOf(RowOfSheet(i)))
                     = safe_sheet_name(BaseOf(RowOfSheet(j))))
           => emitted[i].suffix < emitted[j].suffix

\* C9 witness: three rows with one base title get no suffix, _2, _3
LeastFreeSuffixWitness ==
  /\ pc = "done"
  /\ created = 3
  /\ BaseOf(case_rows[1]) = BaseOf(case_rows[2])
  /\ BaseOf(case_rows[2]) = BaseOf(case_rows[3])
  /\ <<emitted[1].suffix, emitted[2].suffix, emitted[3].suffix>> = <<1, 2, 3>>
  /\ TitleOf(3) = safe_sheet_name(BaseOf(case_rows[3])) \o <<"_", "3">>

(***************************************************************************)
(* C10: a step of the for loop leaves every sheet already in the workbook  *)
(* as it was (the Format sheet and the sheets of earlier rows), a skipped  *)
(* row leaves the workbook unchanged, and the Format sheet of the template *)
(* is in every saved workbook.                                             *)
(***************************************************************************)
RowFrameStep ==
  pc \in {"rows", "collide", "copy"} =>
    /\ Len(wb') >= Len(wb)
    /\ \A n \in 1..Len(wb) : wb'[n] = wb[n]
    /\ Len(wb') <= Len(wb) + 1
    /\ (pc = "rows" /\ row <= Len(case_rows) /\ ~Attended(case_rows[row])) =>
         wb' = wb /\ row' = row + 1

FormatKept ==
  \A d \in Range(saved) :
    \E n \in 1..Len(d) :
      /\ d[n].title = TEMPLATE_SHEET
      /\ \E m \in 1..Len(fs.template) : d[n] = fs.template[m]

\* C10: the loop only appends; the Format sheet is saved unchanged
RowFrame == [][RowFrameStep]_vars /\ []FormatKept

\* C10 witness: a finished run that created two sheets and skipped a row
RowFrameWitness ==
  /\ pc = "done"
  /\ created = 2
  /\ Len(case_rows) = 3
  /\ \E m \in 1..3 : ~Attended(case_rows[m])
  /\ saved = <<wb>>

====
